---- MODULE Spec2Model ----
(***************************************************************************)
(* Order / checkout workflow of the gallery storefront (KamranGH/HAG).     *)
(*                                                                         *)
(* Server side: src/server/routes.ts (Express handlers),                   *)
(* src/server/storage.ts (DatabaseStorage over PostgreSQL) and             *)
(* src/shared/schema.ts (tables, foreign keys, generateSlug).  Client      *)
(* side: the checkout pages (src/unnamed/part_004, part_008, part_009),    *)
(* the cart (ArtworkDetail.tsx, Cart.tsx) and the back office              *)
(* (AdminPanel.tsx).                                                       *)
(*                                                                         *)
(* Amounts are whole dollars; the processor amount is in cents.  Request   *)
(* handlers are sequences of awaited storage calls: one action per awaited *)
(* call, the position of each request kept in its pc.  Under Spec requests *)
(* are served one after the other; SpecCatalog interleaves them.           *)
(***************************************************************************)
EXTENDS Integers, Sequences, FiniteSets, TLC

VARIABLES
    artworks,     \* ids of the rows of table artworks
    customers,    \* rows of table customers, in insertion order
    orders,       \* rows of table orders; serial id = position
    orderItems,   \* rows of table order_items
    reqs,         \* POST /api/orders requests, finished ones kept
    intents,      \* payment intents created at the processor
    paid,         \* ids of orders whose payment the processor confirmed
    pricing,      \* a cart and the totals computed from it (SpecPricing)
    localCart,    \* localStorage item 'cart' of the browser: the line items
    cartItems,    \* state cartItems of the cart page
    cartWrite,    \* the last cart handler and what its localStorage.setItem threw
    checkout,     \* the checkout page: its form, and the handler in progress
    transfers,    \* bank-transfer instructions requested from the adapter
    marked,       \* <<order id, caller>>: orders the back office marked completed
    artworkSlug,  \* column slug of table artworks: id -> slug
    artworkSeq,   \* last value of the serial sequence of artworks.id
    creates,      \* POST /api/artworks requests, finished ones kept
    writers,      \* callers whose catalog mutation was carried out
    displayOrder, \* column display_order of table artworks: id -> position
    reorder,      \* the last POST /api/artworks/reorder, in progress or answered
    socialMedia,  \* table social_media_settings: platform -> url, isEnabled
    socialPut     \* the last PUT /api/social-media/:platform and its answer

\* the browser and what the checkout pages talk to
client == <<localCart, cartItems, cartWrite, checkout, transfers, marked>>

\* the columns of artworks beside the key, and the catalog routes
backOffice == <<reorder, socialMedia, socialPut>>

catalog == <<artworkSlug, artworkSeq, creates, writers, displayOrder, backOffice>>

vars == <<artworks, customers, orders, orderItems, reqs, intents, paid, pricing,
          client, catalog>>

(***************************************************************************)
(* Bounds and input sets                                                   *)
(***************************************************************************)
MaxReqs == 2
MaxItems == 2
MaxIntents == 3
MaxCheckouts == 2
MaxQuantity == 3
MaxCreates == 2

Emails == {"ann@x.org", "bob@x.org"}
PriceInputs == {20, 40, 60}
QtyInputs == {1, 2}
TamperedAmounts == {0, 1}

\* the catalog after seeding; artwork 2 is in no catalog
SeededArtworks == {1}
SeededSlug == <<"a">>

Item(a, t, q, p) ==
    [artworkId |-> a, type |-> t,
     printSize |-> IF t = "print" THEN "8x10" ELSE "none",
     quantity |-> q, unitPrice |-> p]

\* line items of the pricing checks: every type, quantity and price
ItemInputs ==
    {Item(1, t, q, p) : t \in {"original", "print"}, q \in QtyInputs, p \in PriceInputs}

AllCarts == UNION {[1..n -> ItemInputs] : n \in 1..MaxItems}

\* carts sent to the server
CartInputs ==
    { <<Item(1, "print", 2, 20)>>,
      <<Item(1, "original", 1, 100), Item(1, "print", 1, 20)>>,
      <<Item(1, "print", 1, 45), Item(2, "print", 1, 20)>> }

(***************************************************************************)
(* Pricing: server (POST /api/orders) and client (CheckoutSimple)          *)
(***************************************************************************)
FreeShippingThreshold == 100
OriginalShippingRate == 25
PrintShippingRate == 15

RECURSIVE Subtotal(_)
Subtotal(items) ==
    IF items = <<>> THEN 0
    ELSE Subtotal(SubSeq(items, 1, Len(items) - 1))
         + items[Len(items)].unitPrice * items[Len(items)].quantity

HasOriginals(items) == \E i \in 1..Len(items) : items[i].type = "original"

ShippingCostStrict(items) ==
    IF Subtotal(items) > FreeShippingThreshold THEN 0
    ELSE IF HasOriginals(items) THEN OriginalShippingRate ELSE PrintShippingRate

ShippingCostSwapped(items) ==
    IF Subtotal(items) >= FreeShippingThreshold THEN 0
    ELSE IF HasOriginals(items) THEN PrintShippingRate ELSE OriginalShippingRate

ShippingCost(items) ==
    IF Subtotal(items) >= FreeShippingThreshold THEN 0
    ELSE IF HasOriginals(items) THEN OriginalShippingRate ELSE PrintShippingRate

computeTotals(items) ==
    [subtotal |-> Subtotal(items),
     shippingCost |-> ShippingCost(items),
     total |-> Subtotal(items) + ShippingCost(items)]

RECURSIVE ClientSubtotal(_)
ClientSubtotal(items) ==
    IF items = <<>> THEN 0
    ELSE ClientSubtotal(SubSeq(items, 1, Len(items) - 1))
         + items[Len(items)].unitPrice * items[Len(items)].quantity

ClientShippingCost(items) ==
    IF HasOriginals(items) THEN 25 ELSE 15

ClientTotals(items) ==
    [subtotal |-> ClientSubtotal(items),
     shippingCost |-> ClientShippingCost(items),
     total |-> ClientSubtotal(items) + ClientShippingCost(items)]

NoTotals == [done |-> FALSE, subtotal |-> 0, shippingCost |-> 0, total |-> 0]
Done(t) == [done |-> TRUE, subtotal |-> t.subtotal,
            shippingCost |-> t.shippingCost, total |-> t.total]

(***************************************************************************)
(* Storage (DatabaseStorage) and the rows the handlers build               *)
(***************************************************************************)
\* rows of customers with this email
getCustomerByEmailNone(email) == {}

getCustomerByEmail(email) ==
    {customers[i] : i \in {j \in 1..Len(customers) : customers[j].email = email}}

createCustomer(email) ==
    Append(customers, [id |-> Len(customers) + 1, email |-> email])

\* the row POST /api/orders inserts into orders; the handler passes no
\* stripePaymentIntentId, the column stays NULL
OrderRowNoShipping(id, customerId, items) ==
    [id |-> id, customerId |-> customerId,
     subtotalAmount |-> Subtotal(items),
     shippingAmount |-> ShippingCost(items),
     totalAmount |-> Subtotal(items),
     stripePaymentIntentId |-> "none",
     status |-> "pending"]

OrderRowCompleted(id, customerId, items) ==
    [id |-> id, customerId |-> customerId,
     subtotalAmount |-> Subtotal(items),
     shippingAmount |-> ShippingCost(items),
     totalAmount |-> Subtotal(items) + ShippingCost(items),
     stripePaymentIntentId |-> "none",
     status |-> "completed"]

OrderRow(id, customerId, items) ==
    [id |-> id, customerId |-> customerId,
     subtotalAmount |-> Subtotal(items),
     shippingAmount |-> ShippingCost(items),
     totalAmount |-> Subtotal(items) + ShippingCost(items),
     stripePaymentIntentId |-> "none",
     status |-> "pending"]

\* the row POST /api/orders inserts into order_items for one line item
OrderItemRowUnitPrice(id, orderId, item) ==
    [id |-> id, orderId |-> orderId, artworkId |-> item.artworkId,
     type |-> item.type, printSize |-> item.printSize,
     quantity |-> item.quantity, unitPrice |-> item.unitPrice,
     totalPrice |-> item.unitPrice]

OrderItemRow(id, orderId, item) ==
    [id |-> id, orderId |-> orderId, artworkId |-> item.artworkId,
     type |-> item.type, printSize |-> item.printSize,
     quantity |-> item.quantity, unitPrice |-> item.unitPrice,
     totalPrice |-> item.unitPrice * item.quantity]

updateOrderStatusToggle(id, status) ==
    [i \in 1..Len(orders) |->
        IF orders[i].id = id
        THEN [orders[i] EXCEPT !.status = IF @ = status THEN "pending" ELSE status]
        ELSE orders[i]]

\* UPDATE orders SET status WHERE id: no row matches an unknown id
updateOrderStatus(id, status) ==
    [i \in 1..Len(orders) |->
        IF orders[i].id = id THEN [orders[i] EXCEPT !.status = status]
        ELSE orders[i]]

\* a mutation: the foreign key declared ON DELETE SET NULL or left out
ArtworkReferencedNever(id) == FALSE

\* order_items.artwork_id REFERENCES artworks(id), no ON DELETE action
ArtworkReferenced(id) ==
    \E i \in 1..Len(orderItems) : orderItems[i].artworkId = id

\* order_items INNER JOIN artworks WHERE order_id = id, in insertion order
JoinedItemsFirstOnly(id) ==
    LET all == SelectSeq(orderItems,
                   LAMBDA it : it.orderId = id /\ it.artworkId \in artworks)
    IN  IF all = <<>> THEN all ELSE <<all[1]>>

JoinedItems(id) ==
    SelectSeq(orderItems, LAMBDA it : it.orderId = id /\ it.artworkId \in artworks)

OrderExists(id) == \E i \in 1..Len(orders) : orders[i].id = id

OrderById(id) == orders[CHOOSE i \in 1..Len(orders) : orders[i].id = id]

getOrderWithItems(id) ==
    [order |-> OrderById(id), items |-> JoinedItems(id)]

(***************************************************************************)
(* POST /api/orders: one action per awaited storage call                   *)
(***************************************************************************)
Idle == \A r \in 1..Len(reqs) : reqs[r].pc = "done"

InFlight(r) == r \in 1..Len(reqs) /\ reqs[r].pc # "done"

\* the catch block of the handler: 500, whatever was thrown
Fail(r, thrown) ==
    [reqs EXCEPT ![r].pc = "done", ![r].status = 500, ![r].error = thrown]

\* a request as the handler starts on it
NewRequest(email, items) ==
    [email |-> email, items |-> items, pc |-> "getCustomer",
     customerId |-> 0, orderId |-> 0, next |-> 1, status |-> 0,
     error |-> "none", newCustomer |-> FALSE,
     unknownArtwork |-> \E i \in 1..Len(items) : items[i].artworkId \notin artworks]

PostOrders(email, items) ==
    /\ Idle
    /\ Len(reqs) < MaxReqs
    /\ reqs' = Append(reqs, NewRequest(email, items))
    /\ UNCHANGED <<artworks, customers, orders, orderItems, intents, paid, pricing, client, catalog>>

\* a request that arrives while others are between two awaited storage calls
PostOrdersOverlapping(email, items) ==
    /\ Len(reqs) < MaxReqs
    /\ reqs' = Append(reqs, NewRequest(email, items))
    /\ UNCHANGED <<artworks, customers, orders, orderItems, intents, paid, pricing, client, catalog>>

GetCustomer(r) ==
    /\ InFlight(r)
    /\ reqs[r].pc = "getCustomer"
    /\ LET found == getCustomerByEmail(reqs[r].email)
       IN  IF found = {}
           THEN reqs' = [reqs EXCEPT ![r].pc = "createCustomer"]
           ELSE \E c \in found :
                   reqs' = [reqs EXCEPT ![r].pc = "createOrder", ![r].customerId = c.id]
    /\ UNCHANGED <<artworks, customers, orders, orderItems, intents, paid, pricing, client, catalog>>

CreateCustomer(r) ==
    /\ InFlight(r)
    /\ reqs[r].pc = "createCustomer"
    /\ customers' = createCustomer(reqs[r].email)
    /\ reqs' = [reqs EXCEPT ![r].pc = "createOrder",
                            ![r].customerId = Len(customers) + 1,
                            ![r].newCustomer = TRUE]
    /\ UNCHANGED <<artworks, orders, orderItems, intents, paid, pricing, client, catalog>>

CreateOrder(r) ==
    /\ InFlight(r)
    /\ reqs[r].pc = "createOrder"
    /\ orders' = Append(orders,
                    OrderRow(Len(orders) + 1, reqs[r].customerId, reqs[r].items))
    /\ reqs' = [reqs EXCEPT ![r].pc = "addItems", ![r].orderId = Len(orders) + 1]
    /\ UNCHANGED <<artworks, customers, orderItems, intents, paid, pricing, client, catalog>>

\* one pass of the order-items loop; an unknown artwork_id violates the
\* foreign key, the insert throws and the handler answers 500
AddOrderItem(r) ==
    /\ InFlight(r)
    /\ reqs[r].pc = "addItems"
    /\ reqs[r].next <= Len(reqs[r].items)
    /\ LET item == reqs[r].items[reqs[r].next]
       IN  IF item.artworkId \in artworks
           THEN /\ orderItems' = Append(orderItems,
                       OrderItemRow(Len(orderItems) + 1, reqs[r].orderId, item))
                /\ reqs' = [reqs EXCEPT ![r].next = @ + 1]
           ELSE /\ orderItems' = orderItems
                /\ reqs' = Fail(r, "foreign-key")
    /\ UNCHANGED <<artworks, customers, orders, intents, paid, pricing, client, catalog>>

OrderCreated(r) ==
    /\ InFlight(r)
    /\ reqs[r].pc = "addItems"
    /\ reqs[r].next > Len(reqs[r].items)
    /\ reqs' = [reqs EXCEPT ![r].pc = "done", ![r].status = 201]
    /\ UNCHANGED <<artworks, customers, orders, orderItems, intents, paid, pricing, client, catalog>>

\* an awaited storage call rejects (connection lost, statement failed):
\* the catch block answers 500 and what was written before stays
StorageError(r) ==
    /\ InFlight(r)
    /\ \/ reqs[r].pc \in {"getCustomer", "createCustomer", "createOrder"}
       \/ reqs[r].pc = "addItems" /\ reqs[r].next <= Len(reqs[r].items)
    /\ reqs' = Fail(r, "storage")
    /\ UNCHANGED <<artworks, customers, orders, orderItems, intents, paid, pricing, client, catalog>>

(***************************************************************************)
(* Callers.  The routes of the back office are registered behind the       *)
(* middleware isAuthenticated of ./replitAuth, which lets a request pass   *)
(* when it carries the session of a logged-in user.                        *)
(***************************************************************************)
Visitor == [name |-> "visitor", authenticated |-> FALSE, admin |-> FALSE]
Member == [name |-> "member", authenticated |-> TRUE, admin |-> FALSE]
Owner == [name |-> "owner", authenticated |-> TRUE, admin |-> TRUE]

Callers == {Visitor, Member, Owner}

isAuthenticated(caller) == caller.authenticated

(***************************************************************************)
(* Slugs.  A title and a slug are sequences of characters.                 *)
(***************************************************************************)
Letters == {"a", "b"}
Digits == <<"0", "1", "2", "3", "4", "5", "6", "7", "8", "9">>
DigitChars == {Digits[i] : i \in 1..10}

\* \w, \s and the class [\s_-] of the regular expressions of generateSlug
WordChars == Letters \cup DigitChars \cup {"_"}
SpaceChars == {" "}
SeparatorChars == SpaceChars \cup {"_", "-"}

toLowerCase(c) == CASE c = "A" -> "a" [] c = "B" -> "b" [] OTHER -> c

\* s without its leading and trailing characters of set cs
RECURSIVE StripLeading(_, _)
StripLeading(s, cs) ==
    IF s # <<>> /\ Head(s) \in cs THEN StripLeading(Tail(s), cs) ELSE s

RECURSIVE StripTrailing(_, _)
StripTrailing(s, cs) ==
    IF s # <<>> /\ s[Len(s)] \in cs
    THEN StripTrailing(SubSeq(s, 1, Len(s) - 1), cs) ELSE s

Strip(s, cs) == StripTrailing(StripLeading(s, cs), cs)

\* every run of separator characters becomes one hyphen
RECURSIVE CollapseSeparators(_)
CollapseSeparators(s) ==
    IF s = <<>> THEN <<>>
    ELSE IF Head(s) \in SeparatorChars
         THEN <<"-">> \o CollapseSeparators(StripLeading(s, SeparatorChars))
         ELSE <<Head(s)>> \o CollapseSeparators(Tail(s))

generateSlug(title) ==
    Strip(CollapseSeparators(
              SelectSeq(Strip([i \in 1..Len(title) |-> toLowerCase(title[i])], SpaceChars),
                        LAMBDA c : c \in WordChars \cup SpaceChars \cup {"-"})),
          {"-"})

\* the decimal digits of a counter
RECURSIVE Decimal(_)
Decimal(n) ==
    IF n < 10 THEN <<Digits[n + 1]>> ELSE Decimal(n \div 10) \o <<Digits[(n % 10) + 1]>>

\* `${slug}-${counter}`
SlugWithCounterSkipping(slug, counter) == slug \o <<"-">> \o Decimal(counter + 1)

SlugWithCounter(slug, counter) == slug \o <<"-">> \o Decimal(counter)

\* titles sent to the catalog routes: "A", "a!", "A 1" and "2"
TitleInputs == { <<"A">>, <<"a", "!">>, <<"A", " ", "1">>, <<"2">> }

\* a PUT body without a title
NoTitle == <<>>

(***************************************************************************)
(* Table artworks and its routes.  POST /api/artworks is a sequence of     *)
(* awaited storage calls, one action for each; requests are not serialised *)
(***************************************************************************)
\* ids of the rows with this slug
getArtworkBySlug(slug) == {id \in artworks : artworkSlug[id] = slug}

\* slug varchar UNIQUE: a row other than id holds the slug
SlugUniqueViolationNever(id, slug) == FALSE

SlugUniqueViolation(id, slug) ==
    \E other \in artworks : other # id /\ artworkSlug[other] = slug

CreateInFlight(c) == c \in 1..Len(creates) /\ creates[c].pc # "done"

\* a request that was answered: what is left of it is the answer
Answered(caller, status, id) ==
    [caller |-> caller, slug |-> <<>>, finalSlug |-> <<>>, counter |-> 0,
     pc |-> "done", status |-> status, id |-> id]

PostArtworks(caller, title) ==
    /\ Len(creates) < MaxCreates
    /\ creates' = Append(creates,
          IF isAuthenticated(caller)
          THEN [caller |-> caller, slug |-> generateSlug(title),
                finalSlug |-> generateSlug(title), counter |-> 1,
                pc |-> "getArtworkBySlug", status |-> 0, id |-> 0]
          ELSE Answered(caller, 401, 0))
    /\ UNCHANGED <<artworks, customers, orders, orderItems, reqs, intents, paid,
                   pricing, client, artworkSlug, artworkSeq, writers,
                   displayOrder, backOffice>>

\* one pass of the loop of createArtwork
CheckSlug(c) ==
    /\ CreateInFlight(c)
    /\ creates[c].pc = "getArtworkBySlug"
    /\ creates' = IF getArtworkBySlug(creates[c].finalSlug) = {}
                  THEN [creates EXCEPT ![c].pc = "insert"]
                  ELSE [creates EXCEPT
                          ![c].finalSlug = SlugWithCounter(creates[c].slug, creates[c].counter),
                          ![c].counter = @ + 1]
    /\ UNCHANGED <<artworks, customers, orders, orderItems, reqs, intents, paid,
                   pricing, client, artworkSlug, artworkSeq, writers,
                   displayOrder, backOffice>>

\* the insert of createArtwork: the id is drawn from the sequence, then the
\* row is stored, or rejected by the unique constraint and answered 500
InsertArtwork(c) ==
    /\ CreateInFlight(c)
    /\ creates[c].pc = "insert"
    /\ artworkSeq' = artworkSeq + 1
    /\ IF SlugUniqueViolation(artworkSeq + 1, creates[c].finalSlug)
       THEN /\ creates' = [creates EXCEPT ![c] = Answered(creates[c].caller, 500, 0)]
            /\ UNCHANGED <<artworks, artworkSlug, writers, displayOrder>>
       ELSE /\ creates' = [creates EXCEPT
                             ![c] = Answered(creates[c].caller, 201, artworkSeq + 1)]
            /\ artworks' = artworks \cup {artworkSeq + 1}
            /\ artworkSlug' = [id \in artworks \cup {artworkSeq + 1} |->
                                  IF id \in artworks THEN artworkSlug[id]
                                  ELSE creates[c].finalSlug]
            /\ displayOrder' = [id \in artworks \cup {artworkSeq + 1} |->
                                  IF id \in artworks THEN displayOrder[id] ELSE 0]
            /\ writers' = writers \cup {creates[c].caller.name}
    /\ UNCHANGED <<customers, orders, orderItems, reqs, intents, paid, pricing,
                   client, backOffice>>

\* /^\d+$/.test(identifier)
IsNumeric(identifier) ==
    /\ identifier # <<>>
    /\ \A i \in 1..Len(identifier) : identifier[i] \in DigitChars

\* parseInt of a string of decimal digits
RECURSIVE parseInt(_)
parseInt(identifier) ==
    IF identifier = <<>> THEN 0
    ELSE 10 * parseInt(SubSeq(identifier, 1, Len(identifier) - 1))
         + (CHOOSE n \in 0..9 : Digits[n + 1] = identifier[Len(identifier)])

\* ids of the rows with this id
getArtwork(id) == {a \in artworks : a = id}

\* GET /api/artworks/:identifier: an identifier of digits only is looked up
\* as an id, any other as a slug; no row found is answered 404
GetArtwork(identifier) ==
    LET found == IF IsNumeric(identifier)
                 THEN getArtwork(parseInt(identifier))
                 ELSE getArtworkBySlug(identifier)
    IN  [status |-> IF found = {} THEN 404 ELSE 200, artwork |-> found]

\* the answer of PUT /api/artworks/:id: res.json(artwork) is sent with status
\* 200 whether or not updateArtwork returned a row; the UPDATE throws, and
\* the catch block answers 500, when the new slug is the slug of another row
PutArtworkAnswer(caller, id, title) ==
    IF ~isAuthenticated(caller)
    THEN [status |-> 401, found |-> FALSE]
    ELSE IF id \in artworks /\ title # NoTitle
               /\ SlugUniqueViolation(id, generateSlug(title))
         THEN [status |-> 500, found |-> FALSE]
         ELSE [status |-> 200, found |-> id \in artworks]

\* PUT /api/artworks/:id: with a title in the body the slug is generated
\* again; updateArtwork is one UPDATE, which matches no row for an unknown id
\* and is rejected when the slug is the slug of another row
PutArtwork(caller, id, title) ==
    /\ IF PutArtworkAnswer(caller, id, title).status = 200 /\ id \in artworks
       THEN /\ artworkSlug' = IF title # NoTitle
                               THEN [artworkSlug EXCEPT ![id] = generateSlug(title)]
                               ELSE artworkSlug
            /\ writers' = writers \cup {caller.name}
       ELSE UNCHANGED <<artworkSlug, writers>>
    /\ UNCHANGED <<artworks, customers, orders, orderItems, reqs, intents, paid,
                   pricing, client, artworkSeq, creates, displayOrder, backOffice>>

\* the answer of DELETE /api/artworks/:id: 204, or 500 from the catch block
\* when the DELETE violates the foreign key of order_items
DeleteArtworkAnswer(caller, id) ==
    IF ~isAuthenticated(caller) THEN 401
    ELSE IF ArtworkReferenced(id) THEN 500 ELSE 204

\* DELETE /api/artworks/:id: the delete of a referenced artwork violates the
\* foreign key of order_items, the handler answers 500 and nothing changes
DeleteArtwork(caller, id) ==
    /\ Idle
    /\ id \in artworks
    /\ IF DeleteArtworkAnswer(caller, id) = 204
       THEN /\ artworks' = artworks \ {id}
            /\ artworkSlug' = [a \in artworks \ {id} |-> artworkSlug[a]]
            /\ displayOrder' = [a \in artworks \ {id} |-> displayOrder[a]]
            /\ writers' = writers \cup {caller.name}
       ELSE UNCHANGED <<artworks, artworkSlug, writers, displayOrder>>
    /\ UNCHANGED <<customers, orders, orderItems, reqs, intents, paid, pricing,
                   client, artworkSeq, creates, backOffice>>

(***************************************************************************)
(* POST /api/artworks/reorder and GET /api/artworks.  reorderArtworks      *)
(* awaits one UPDATE for each element of the list, outside a transaction.  *)
(***************************************************************************)
\* getAllArtworks: the ids of the rows, ORDER BY display_order, id
getAllArtworks ==
    CHOOSE s \in [1..Cardinality(artworks) -> artworks] :
        \A i, j \in 1..Cardinality(artworks) :
            i < j => \/ displayOrder[s[i]] < displayOrder[s[j]]
                     \/ /\ displayOrder[s[i]] = displayOrder[s[j]]
                        /\ s[i] < s[j]

\* the lists sent to the route (the body always holds an array here; any
\* other body is answered 400 before the storage is called)
ReorderInputs == { <<1, 2, 3>>, <<3, 1, 2>>, <<2, 3, 1>>, <<3, 1>> }

NoReorder == [caller |-> "none", artworkIds |-> <<>>, i |-> 0, pc |-> "none",
              status |-> 0, before |-> <<>>]

PostArtworksReorder(caller, artworkIds) ==
    /\ reorder.pc # "update"
    /\ reorder' = IF isAuthenticated(caller)
                  THEN [caller |-> caller.name, artworkIds |-> artworkIds, i |-> 0,
                        pc |-> "update", status |-> 0, before |-> getAllArtworks]
                  ELSE [caller |-> caller.name, artworkIds |-> artworkIds, i |-> 0,
                        pc |-> "done", status |-> 401, before |-> getAllArtworks]
    /\ UNCHANGED <<artworks, customers, orders, orderItems, reqs, intents, paid,
                   pricing, client, artworkSlug, artworkSeq, creates, writers,
                   displayOrder, socialMedia, socialPut>>

\* a mutation: the UPDATE writes the index counted from 1
ReorderedRowFromOne(order, artworkIds, i) ==
    IF artworkIds[i + 1] \in DOMAIN order
    THEN [order EXCEPT ![artworkIds[i + 1]] = i + 1]
    ELSE order

\* the UPDATE of iteration i (counted from 0): SET display_order = i WHERE
\* id = artworkIds[i]; it matches no row when the id is unknown
ReorderedRow(order, artworkIds, i) ==
    IF artworkIds[i + 1] \in DOMAIN order
    THEN [order EXCEPT ![artworkIds[i + 1]] = i]
    ELSE order

\* one iteration of the loop of reorderArtworks
reorderArtworks ==
    /\ reorder.pc = "update"
    /\ reorder.i < Len(reorder.artworkIds)
    /\ displayOrder' = ReorderedRow(displayOrder, reorder.artworkIds, reorder.i)
    /\ reorder' = [reorder EXCEPT !.i = @ + 1]
    /\ UNCHANGED <<artworks, customers, orders, orderItems, reqs, intents, paid,
                   pricing, client, artworkSlug, artworkSeq, creates, writers,
                   socialMedia, socialPut>>

\* the loop ended and the handler answers 200
ReorderAnswered ==
    /\ reorder.pc = "update"
    /\ reorder.i = Len(reorder.artworkIds)
    /\ reorder' = [reorder EXCEPT !.pc = "done", !.status = 200]
    /\ UNCHANGED <<artworks, customers, orders, orderItems, reqs, intents, paid,
                   pricing, client, artworkSlug, artworkSeq, creates, writers,
                   displayOrder, socialMedia, socialPut>>

\* an UPDATE of the loop throws: the catch block answers 500 and the rows
\* written by the earlier iterations stay as they are
ReorderStorageError ==
    /\ reorder.pc = "update"
    /\ reorder.i < Len(reorder.artworkIds)
    /\ reorder' = [reorder EXCEPT !.pc = "done", !.status = 500]
    /\ UNCHANGED <<artworks, customers, orders, orderItems, reqs, intents, paid,
                   pricing, client, artworkSlug, artworkSeq, creates, writers,
                   displayOrder, socialMedia, socialPut>>

(***************************************************************************)
(* PUT /api/social-media/:platform                                         *)
(***************************************************************************)
Platforms == {"instagram", "facebook", "x"}

SettingInputs == {[url |-> u, isEnabled |-> b] : u \in {"u1", "u2"}, b \in BOOLEAN}

NoSetting == [url |-> "", isEnabled |-> FALSE]

NoSocialPut == [platform |-> "none", settingData |-> NoSetting, stored |-> FALSE,
                thrown |-> "none", status |-> 0]

\* UPDATE ... WHERE platform = :platform RETURNING: no row matches an unknown
\* platform, the result is empty and nothing is thrown
updateSocialMediaSetting(platform, settingData) ==
    IF platform \in DOMAIN socialMedia
    THEN [socialMedia EXCEPT ![platform] = settingData]
    ELSE socialMedia

\* INSERT ... ON CONFLICT (platform) DO UPDATE SET url, is_enabled
createOrUpdateSocialMediaSetting(platform, settingData) ==
    [p \in DOMAIN socialMedia \cup {platform} |->
        IF p = platform THEN settingData ELSE socialMedia[p]]

\* the handler: createOrUpdateSocialMediaSetting is called in the catch block
\* of updateSocialMediaSetting, that is only when the UPDATE has thrown;
\* thrown tells which of the two statements the database fails
PutSocialMedia(caller, platform, settingData, thrown) ==
    /\ socialMedia' =
          IF ~isAuthenticated(caller) \/ thrown = "both" THEN socialMedia
          ELSE IF thrown = "update"
               THEN createOrUpdateSocialMediaSetting(platform, settingData)
               ELSE updateSocialMediaSetting(platform, settingData)
    /\ socialPut' = [platform |-> platform, settingData |-> settingData,
                     stored |-> platform \in DOMAIN socialMedia,
                     thrown |-> thrown,
                     status |-> IF ~isAuthenticated(caller) THEN 401
                                ELSE IF thrown = "both" THEN 500 ELSE 200]
    /\ UNCHANGED <<artworks, customers, orders, orderItems, reqs, intents, paid,
                   pricing, client, artworkSlug, artworkSeq, creates, writers,
                   displayOrder, reorder>>

(***************************************************************************)
(* The other routes and the checkout client                                *)
(***************************************************************************)
\* POST /api/create-payment-intent: the amount is read from the body and
\* a body without a positive amount is answered 400.  cart is the cart the
\* caller holds; the handler never sees it.
PostCreatePaymentIntent(cart, amount) ==
    /\ Len(intents) < MaxIntents
    /\ IF amount <= 0
       THEN intents' = intents
       ELSE intents' = Append(intents, [amount |-> amount * 100, cart |-> cart])
    /\ UNCHANGED <<artworks, customers, orders, orderItems, reqs, paid, pricing, client, catalog>>

\* CheckoutSimple.createPaymentIntent: the client sends its own total
CheckoutCreatePaymentIntent(cart) ==
    /\ ClientTotals(cart).total > 0
    /\ PostCreatePaymentIntent(cart, ClientTotals(cart).total)

\* any other caller of the public route, with an amount of its choice
RawCreatePaymentIntent(cart, amount) ==
    /\ amount \in TamperedAmounts
    /\ PostCreatePaymentIntent(cart, amount)

\* CheckoutForm.handleSubmit after the order came back: stripe.confirmPayment
\* succeeds and the cart is removed (an error only shows a toast)
ConfirmPayment(r) ==
    /\ Idle
    /\ r \in 1..Len(reqs)
    /\ reqs[r].status = 201
    /\ reqs[r].orderId \notin paid
    /\ paid' = paid \cup {reqs[r].orderId}
    /\ localCart' = <<>>
    /\ UNCHANGED <<artworks, customers, orders, orderItems, reqs, intents, pricing,
                   cartItems, cartWrite, checkout, transfers, marked, catalog>>

\* POST /api/orders/:id/complete; stripePaymentIntentId is read and not used
PostOrderComplete(id, stripePaymentIntentId) ==
    /\ Idle
    /\ orders' = updateOrderStatus(id, "completed")
    /\ UNCHANGED <<artworks, customers, orderItems, reqs, intents, paid, pricing, client, catalog>>

\* GET /api/orders/:id: a read, the answer for the state as it is
GetOrder(id) ==
    IF OrderExists(id)
    THEN [status |-> 200, order |-> getOrderWithItems(id).order,
          items |-> getOrderWithItems(id).items]
    ELSE [status |-> 404, order |-> <<>>, items |-> <<>>]

\* the answer of POST /api/orders/:id/complete: res.json(order) is sent with
\* status 200 whether or not updateOrderStatus returned a row
PostOrderCompleteAnswer(id) == [status |-> 200, found |-> OrderExists(id)]

(***************************************************************************)
(* The checkout pages.  CheckoutSimple (part_009) posts the cart to        *)
(* POST /api/orders and confirms the payment afterwards.  The forms of     *)
(* part_004 and part_008 confirm the payment or not, then run              *)
(* createOrderMutation: one request for the customer, one for the order,   *)
(* one for each line item.  apiRequest rejects on every answer that is not *)
(* 2xx, which takes a handler to its catch block.                          *)
(***************************************************************************)
CardFlows == {"simple", "elements", "stripeForm"}

\* apiRequest of lib/queryClient: the promise rejects when the answer is not ok
apiRequestThrows(status) == status < 200 \/ status > 299

IdleCheckout ==
    [flow |-> "none", pc |-> "form", email |-> "none", items |-> <<>>,
     req |-> 0, customerId |-> 0, orderId |-> 0, next |-> 1,
     intent |-> "none", n |-> 0]

\* no handler of the checkout page is in progress
CheckoutIdle == checkout.pc \in {"form", "failed", "success"}

CanSubmit ==
    /\ CheckoutIdle
    /\ checkout.pc # "success"
    /\ localCart # <<>>
    /\ checkout.n < MaxCheckouts

\* the page state when a submit handler starts
Submitted(flow, email, pc) ==
    [flow |-> flow, pc |-> pc, email |-> email, items |-> localCart,
     req |-> 0, customerId |-> 0, orderId |-> 0, next |-> 1,
     intent |-> "none", n |-> checkout.n + 1]

\* a handler reached its catch block or its error branch: a toast and
\* nothing else
Toast == [checkout EXCEPT !.pc = "failed"]

\* CheckoutSimple, CheckoutForm.handleSubmit: "Create order first"
CheckoutFormSubmit(email) ==
    /\ CanSubmit
    /\ Idle
    /\ Len(reqs) < MaxReqs
    /\ reqs' = Append(reqs, NewRequest(email, localCart))
    /\ checkout' = [Submitted("simple", email, "awaitOrder") EXCEPT !.req = Len(reqs) + 1]
    /\ UNCHANGED <<artworks, customers, orders, orderItems, intents, paid, pricing,
                   localCart, cartItems, cartWrite, transfers, marked, catalog>>

\* the answer of POST /api/orders arrives
CheckoutFormOrderAnswered ==
    /\ checkout.flow = "simple"
    /\ checkout.pc = "awaitOrder"
    /\ reqs[checkout.req].pc = "done"
    /\ checkout' = IF ~apiRequestThrows(reqs[checkout.req].status)
                   THEN [checkout EXCEPT !.pc = "confirmPayment",
                                         !.orderId = reqs[checkout.req].orderId]
                   ELSE Toast
    /\ UNCHANGED <<artworks, customers, orders, orderItems, reqs, intents, paid,
                   pricing, localCart, cartItems, cartWrite, transfers, marked, catalog>>

CheckoutFormConfirmPaymentClears(succeeded) ==
    /\ checkout.flow = "simple"
    /\ checkout.pc = "confirmPayment"
    /\ paid' = IF succeeded THEN paid \cup {checkout.orderId} ELSE paid
    /\ localCart' = <<>>
    /\ checkout' = IF succeeded
                   THEN [checkout EXCEPT !.pc = "success", !.intent = "pi_1"]
                   ELSE Toast
    /\ UNCHANGED <<artworks, customers, orders, orderItems, reqs, intents, pricing,
                   cartItems, cartWrite, transfers, marked, catalog>>

\* stripe.confirmPayment after the order: without error the cart is removed
CheckoutFormConfirmPayment(succeeded) ==
    /\ checkout.flow = "simple"
    /\ checkout.pc = "confirmPayment"
    /\ IF succeeded
       THEN /\ paid' = paid \cup {checkout.orderId}
            /\ localCart' = <<>>
            /\ checkout' = [checkout EXCEPT !.pc = "success", !.intent = "pi_1"]
       ELSE /\ paid' = paid
            /\ localCart' = localCart
            /\ checkout' = Toast
    /\ UNCHANGED <<artworks, customers, orders, orderItems, reqs, intents, pricing,
                   cartItems, cartWrite, transfers, marked, catalog>>

\* part_004, CheckoutFormWithElements.handleSubmit: stripe.confirmPayment
\* first; createOrderMutation only when the payment intent succeeded
ElementsSubmit(email, succeeded) ==
    /\ CanSubmit
    /\ checkout' = IF succeeded
                   THEN [Submitted("elements", email, "createCustomer") EXCEPT !.intent = "pi_1"]
                   ELSE Submitted("elements", email, "failed")
    /\ UNCHANGED <<artworks, customers, orders, orderItems, reqs, intents, paid,
                   pricing, localCart, cartItems, cartWrite, transfers, marked, catalog>>

\* part_008, StripePaymentForm.handleSubmit: the same order of calls
StripeFormSubmit(email, succeeded) ==
    /\ CanSubmit
    /\ checkout' = IF succeeded
                   THEN [Submitted("stripeForm", email, "createCustomer") EXCEPT !.intent = "pi_1"]
                   ELSE Submitted("stripeForm", email, "failed")
    /\ UNCHANGED <<artworks, customers, orders, orderItems, reqs, intents, paid,
                   pricing, localCart, cartItems, cartWrite, transfers, marked, catalog>>

\* InteracPaymentForm.handleInteracPayment: "Create order first"
InteracSubmit(email) ==
    /\ CanSubmit
    /\ checkout' = Submitted("interac", email, "createCustomer")
    /\ UNCHANGED <<artworks, customers, orders, orderItems, reqs, intents, paid,
                   pricing, localCart, cartItems, cartWrite, transfers, marked, catalog>>

\* createOrderMutation.mutationFn, "First create the customer": the request
\* is answered with the new row, or rejected
MutationCreateCustomer(ok) ==
    /\ checkout.pc = "createCustomer"
    /\ IF ok
       THEN /\ customers' = createCustomer(checkout.email)
            /\ checkout' = [checkout EXCEPT !.pc = "createOrder",
                                            !.customerId = Len(customers) + 1]
       ELSE /\ customers' = customers
            /\ checkout' = Toast
    /\ UNCHANGED <<artworks, orders, orderItems, reqs, intents, paid, pricing,
                   localCart, cartItems, cartWrite, transfers, marked, catalog>>

\* "Then create the order": the body carries the amounts of the page, which
\* are those of computeTotals, and status "pending"
MutationCreateOrder(ok) ==
    /\ checkout.pc = "createOrder"
    /\ IF ok
       THEN /\ orders' = Append(orders,
                    OrderRow(Len(orders) + 1, checkout.customerId, checkout.items))
            /\ paid' = IF checkout.intent = "none" THEN paid
                       ELSE paid \cup {Len(orders) + 1}
            /\ checkout' = [checkout EXCEPT !.pc = "addItems",
                                            !.orderId = Len(orders) + 1]
       ELSE /\ orders' = orders
            /\ paid' = paid
            /\ checkout' = Toast
    /\ UNCHANGED <<artworks, customers, orderItems, reqs, intents, pricing,
                   localCart, cartItems, cartWrite, transfers, marked, catalog>>

\* "Add order items", one pass of the loop; the insert of a line item of
\* an unknown artwork is rejected by the foreign key
MutationAddOrderItem(ok) ==
    /\ checkout.pc = "addItems"
    /\ checkout.next <= Len(checkout.items)
    /\ LET item == checkout.items[checkout.next]
       IN  IF ok /\ item.artworkId \in artworks
           THEN /\ orderItems' = Append(orderItems,
                       OrderItemRow(Len(orderItems) + 1, checkout.orderId, item))
                /\ checkout' = [checkout EXCEPT !.next = @ + 1]
           ELSE /\ orderItems' = orderItems
                /\ checkout' = Toast
    /\ UNCHANGED <<artworks, customers, orders, reqs, intents, paid, pricing,
                   localCart, cartItems, cartWrite, transfers, marked, catalog>>

MutationResolved(flow) ==
    /\ checkout.flow = flow
    /\ checkout.pc = "addItems"
    /\ checkout.next > Len(checkout.items)

\* part_004: the order came back, completeOrderMutation posts
\* /api/orders/:id/complete with the payment intent id; onSuccess removes
\* the cart, onError shows a toast
ElementsCompleteOrder(ok) ==
    /\ MutationResolved("elements")
    /\ IF ok
       THEN /\ orders' = updateOrderStatus(checkout.orderId, "completed")
            /\ localCart' = <<>>
            /\ checkout' = [checkout EXCEPT !.pc = "success"]
       ELSE /\ orders' = orders
            /\ localCart' = localCart
            /\ checkout' = Toast
    /\ UNCHANGED <<artworks, customers, orderItems, reqs, intents, paid, pricing,
                   cartItems, cartWrite, transfers, marked, catalog>>

\* part_008: the order came back, the cart is removed
StripeFormOrderCreated ==
    /\ MutationResolved("stripeForm")
    /\ localCart' = <<>>
    /\ checkout' = [checkout EXCEPT !.pc = "success"]
    /\ UNCHANGED <<artworks, customers, orders, orderItems, reqs, intents, paid,
                   pricing, cartItems, cartWrite, transfers, marked, catalog>>

\* handleInteracPayment: the order came back, POST /api/interac/create-payment
\* with its id; then the cart is removed
InteracCreatePayment(ok) ==
    /\ MutationResolved("interac")
    /\ IF ok
       THEN /\ transfers' = Append(transfers,
                    [orderId |-> checkout.orderId,
                     amount |-> computeTotals(checkout.items).total])
            /\ localCart' = <<>>
            /\ checkout' = [checkout EXCEPT !.pc = "success"]
       ELSE /\ transfers' = transfers
            /\ localCart' = localCart
            /\ checkout' = Toast
    /\ UNCHANGED <<artworks, customers, orders, orderItems, reqs, intents, paid,
                   pricing, cartItems, cartWrite, marked, catalog>>

\* AdminPanel.handleMarkAsCompleted: PATCH /api/admin/orders/:id/status with
\* status "completed"; the route sets the status it is given for a caller
\* that passes isAuthenticated
AdminMarkAsCompleted(caller, id) ==
    /\ CheckoutIdle
    /\ Idle
    /\ OrderExists(id)
    /\ OrderById(id).status # "completed"
    /\ IF isAuthenticated(caller)
       THEN /\ orders' = updateOrderStatus(id, "completed")
            /\ marked' = marked \cup {<<id, caller.name>>}
       ELSE /\ orders' = orders
            /\ marked' = marked
    /\ UNCHANGED <<artworks, customers, orderItems, reqs, intents, paid, pricing,
                   localCart, cartItems, cartWrite, checkout, transfers, catalog>>

\* any caller of the public route POST /api/orders/:id/complete
RawOrderComplete(id) ==
    /\ CheckoutIdle
    /\ PostOrderComplete(id, "none")

(***************************************************************************)
(* The cart in the browser: ArtworkDetail.addToCart and the cart page      *)
(***************************************************************************)
\* what identifies a line item of the cart
LineKey(item) == <<item.artworkId, item.type, item.printSize>>

\* outcomes of localStorage.setItem in a handler: it returns; it throws
\* QuotaExceededError and the retry returns; it throws QuotaExceededError
\* and the retry throws too; it throws something else
SetItemOutcomes == {"none", "quota", "quotaTwice", "other"}

NoCartWrite == [handler |-> "none", thrown |-> "none"]

\* line items the artwork page offers
CartItemInputs ==
    {Item(1, "original", 1, 60), Item(1, "print", 1, 20), Item(1, "print", 2, 20)}

\* a mutation: the item is pushed without a look at the lines of the cart
MergedCartPushed(existing, item) == Append(existing, item)

\* existingCart after findIndex and either quantity += or push
MergedCart(existing, item) ==
    IF \E i \in 1..Len(existing) : LineKey(existing[i]) = LineKey(item)
    THEN [i \in 1..Len(existing) |->
            IF LineKey(existing[i]) = LineKey(item)
            THEN [existing[i] EXCEPT !.quantity = @ + item.quantity]
            ELSE existing[i]]
    ELSE Append(existing, item)

\* what localStorage holds under 'cart' after addToCart
StoredAfterAdd(item, thrown) ==
    CASE thrown = "none" -> MergedCart(localCart, item)
      [] thrown = "quota" -> <<item>>
      [] thrown = "quotaTwice" -> <<>>
      [] OTHER -> localCart

AddToCart(item, thrown) ==
    /\ \A i \in 1..Len(MergedCart(localCart, item)) :
            MergedCart(localCart, item)[i].quantity <= MaxQuantity
    /\ localCart' = StoredAfterAdd(item, thrown)
    /\ cartWrite' = [handler |-> "addToCart", thrown |-> thrown]
    /\ UNCHANGED <<artworks, customers, orders, orderItems, reqs, intents, paid,
                   pricing, cartItems, checkout, transfers, marked, catalog>>

\* the cart page mounts: cartItems is read from localStorage
CartMount ==
    /\ cartItems' = localCart
    /\ UNCHANGED <<artworks, customers, orders, orderItems, reqs, intents, paid,
                   pricing, localCart, cartWrite, checkout, transfers, marked, catalog>>

\* Cart.updateCart(items) called by a handler of the cart page
updateCart(handler, items, thrown) ==
    /\ cartItems' = IF thrown = "quotaTwice" THEN <<>> ELSE items
    /\ localCart' = CASE thrown \in {"none", "quota"} -> items
                      [] thrown = "quotaTwice" -> <<>>
                      [] OTHER -> localCart
    /\ cartWrite' = [handler |-> handler, thrown |-> thrown]
    /\ UNCHANGED <<artworks, customers, orders, orderItems, reqs, intents, paid,
                   pricing, checkout, transfers, marked, catalog>>

\* the buttons that call updateQuantity are rendered for print lines only
UpdateQuantity(i, newQuantity, thrown) ==
    /\ i \in 1..Len(cartItems)
    /\ cartItems[i].type = "print"
    /\ newQuantity >= 1
    /\ updateCart("updateQuantity",
                  [cartItems EXCEPT ![i].quantity = newQuantity], thrown)

RemoveItem(i, thrown) ==
    /\ i \in 1..Len(cartItems)
    /\ updateCart("removeItem",
                  SelectSeq(cartItems, LAMBDA it : LineKey(it) # LineKey(cartItems[i])),
                  thrown)

(***************************************************************************)
(* Specification of the server                                             *)
(***************************************************************************)
OrderIds == 1..MaxReqs

IdlePricing == [cart |-> <<>>, server |-> NoTotals, client |-> NoTotals]

InitClient ==
    /\ localCart = <<>>
    /\ cartItems = <<>>
    /\ cartWrite = NoCartWrite
    /\ checkout = IdleCheckout
    /\ transfers = <<>>
    /\ marked = {}

InitCatalog ==
    /\ artworkSlug = [id \in SeededArtworks |-> SeededSlug]
    /\ artworkSeq = 1
    /\ creates = <<>>
    /\ writers = {}
    /\ displayOrder = [id \in SeededArtworks |-> 0]
    /\ reorder = NoReorder
    /\ socialMedia = [p \in {} |-> NoSetting]
    /\ socialPut = NoSocialPut

Init ==
    /\ artworks = SeededArtworks
    /\ customers = <<>>
    /\ orders = <<>>
    /\ orderItems = <<>>
    /\ reqs = <<>>
    /\ intents = <<>>
    /\ paid = {}
    /\ pricing = IdlePricing
    /\ InitClient
    /\ InitCatalog

Next ==
    \/ \E e \in Emails, c \in CartInputs : PostOrders(e, c)
    \/ \E r \in 1..MaxReqs : GetCustomer(r)
    \/ \E r \in 1..MaxReqs : CreateCustomer(r)
    \/ \E r \in 1..MaxReqs : CreateOrder(r)
    \/ \E r \in 1..MaxReqs : AddOrderItem(r)
    \/ \E r \in 1..MaxReqs : OrderCreated(r)
    \/ \E r \in 1..MaxReqs : StorageError(r)
    \/ \E r \in 1..MaxReqs : ConfirmPayment(r)
    \/ \E id \in OrderIds, t \in {"none", "pi_1"} : PostOrderComplete(id, t)
    \/ \E id \in SeededArtworks : DeleteArtwork(Owner, id)

Spec == Init /\ [][Next]_vars

(***************************************************************************)
(* Specification of the payment-intent route, which touches no table       *)
(***************************************************************************)
NextPayment ==
    \/ \E c \in CartInputs : CheckoutCreatePaymentIntent(c)
    \/ \E c \in CartInputs, a \in TamperedAmounts : RawCreatePaymentIntent(c, a)

SpecPayment == Init /\ [][NextPayment]_vars

(***************************************************************************)
(* Specification of the pricing rules: a cart, then the totals the server  *)
(* and the client compute from it                                          *)
(***************************************************************************)
InitPricing ==
    /\ artworks = SeededArtworks
    /\ customers = <<>>
    /\ orders = <<>>
    /\ orderItems = <<>>
    /\ reqs = <<>>
    /\ intents = <<>>
    /\ paid = {}
    /\ pricing \in {[cart |-> c, server |-> NoTotals, client |-> NoTotals] : c \in AllCarts}
    /\ InitClient
    /\ InitCatalog

ServerTotals ==
    /\ ~pricing.server.done
    /\ pricing' = [pricing EXCEPT !.server = Done(computeTotals(pricing.cart))]
    /\ UNCHANGED <<artworks, customers, orders, orderItems, reqs, intents, paid, client, catalog>>

CheckoutTotals ==
    /\ ~pricing.client.done
    /\ pricing' = [pricing EXCEPT !.client = Done(ClientTotals(pricing.cart))]
    /\ UNCHANGED <<artworks, customers, orders, orderItems, reqs, intents, paid, client, catalog>>

NextPricing == ServerTotals \/ CheckoutTotals

SpecPricing == InitPricing /\ [][NextPricing]_vars

(***************************************************************************)
(* Specification of the cart in the browser                                *)
(***************************************************************************)
NextCart ==
    \/ \E item \in CartItemInputs, t \in SetItemOutcomes : AddToCart(item, t)
    \/ CartMount
    \/ \E i \in 1..MaxItems, q \in 0..MaxQuantity, t \in SetItemOutcomes :
            UpdateQuantity(i, q, t)
    \/ \E i \in 1..MaxItems, t \in SetItemOutcomes : RemoveItem(i, t)

SpecCart == Init /\ [][NextCart]_vars

(***************************************************************************)
(* Specification of the checkout pages: a browser with a stored cart, one  *)
(* submit handler at a time, and the server behind it                      *)
(***************************************************************************)
InitCheckout ==
    /\ artworks = SeededArtworks
    /\ customers = <<>>
    /\ orders = <<>>
    /\ orderItems = <<>>
    /\ reqs = <<>>
    /\ intents = <<>>
    /\ paid = {}
    /\ pricing = IdlePricing
    /\ localCart \in CartInputs
    /\ cartItems = <<>>
    /\ cartWrite = NoCartWrite
    /\ checkout = IdleCheckout
    /\ transfers = <<>>
    /\ marked = {}
    /\ InitCatalog

NextCheckout ==
    \/ \E e \in Emails : CheckoutFormSubmit(e)
    \/ \E r \in 1..MaxReqs : GetCustomer(r)
    \/ \E r \in 1..MaxReqs : CreateCustomer(r)
    \/ \E r \in 1..MaxReqs : CreateOrder(r)
    \/ \E r \in 1..MaxReqs : AddOrderItem(r)
    \/ \E r \in 1..MaxReqs : OrderCreated(r)
    \/ \E r \in 1..MaxReqs : StorageError(r)
    \/ CheckoutFormOrderAnswered
    \/ \E ok \in BOOLEAN : CheckoutFormConfirmPayment(ok)
    \/ \E e \in Emails, ok \in BOOLEAN : ElementsSubmit(e, ok)
    \/ \E e \in Emails, ok \in BOOLEAN : StripeFormSubmit(e, ok)
    \/ \E e \in Emails : InteracSubmit(e)
    \/ \E ok \in BOOLEAN : MutationCreateCustomer(ok)
    \/ \E ok \in BOOLEAN : MutationCreateOrder(ok)
    \/ \E ok \in BOOLEAN : MutationAddOrderItem(ok)
    \/ \E ok \in BOOLEAN : ElementsCompleteOrder(ok)
    \/ StripeFormOrderCreated
    \/ \E ok \in BOOLEAN : InteracCreatePayment(ok)

SpecCheckout == InitCheckout /\ [][NextCheckout]_vars

(***************************************************************************)
(* Specification of the bank-transfer path: the Interac form, the back     *)
(* office and the callers of the public route that completes an order      *)
(***************************************************************************)
NextTransfer ==
    \/ \E e \in Emails : InteracSubmit(e)
    \/ \E ok \in BOOLEAN : MutationCreateCustomer(ok)
    \/ \E ok \in BOOLEAN : MutationCreateOrder(ok)
    \/ \E ok \in BOOLEAN : MutationAddOrderItem(ok)
    \/ \E ok \in BOOLEAN : InteracCreatePayment(ok)
    \/ \E c \in Callers, id \in OrderIds : AdminMarkAsCompleted(c, id)
    \/ \E id \in OrderIds : RawOrderComplete(id)

SpecTransfer == InitCheckout /\ [][NextTransfer]_vars

(***************************************************************************)
(* Specifications of the catalog routes: the requests of the owner,        *)
(* interleaved as the server interleaves them; and the requests of every   *)
(* caller, served one after the other                                      *)
(***************************************************************************)
ArtworkIds == 1..(1 + MaxCreates)

CatalogIdle == \A c \in 1..Len(creates) : creates[c].pc = "done"

NextCatalog ==
    \/ \E t \in TitleInputs : PostArtworks(Owner, t)
    \/ \E c \in 1..MaxCreates : CheckSlug(c)
    \/ \E c \in 1..MaxCreates : InsertArtwork(c)
    \/ \E id \in ArtworkIds, t \in TitleInputs \cup {NoTitle} : PutArtwork(Owner, id, t)
    \/ \E id \in ArtworkIds : DeleteArtwork(Owner, id)

SpecCatalog == Init /\ [][NextCatalog]_vars

NextCatalogSerial ==
    \/ CatalogIdle /\ \E caller \in Callers, t \in TitleInputs : PostArtworks(caller, t)
    \/ \E c \in 1..MaxCreates : CheckSlug(c)
    \/ \E c \in 1..MaxCreates : InsertArtwork(c)
    \/ CatalogIdle /\ \E caller \in Callers, id \in ArtworkIds, t \in TitleInputs \cup {NoTitle} :
            PutArtwork(caller, id, t)
    \/ CatalogIdle /\ \E caller \in Callers, id \in ArtworkIds : DeleteArtwork(caller, id)

SpecCatalogSerial == Init /\ [][NextCatalogSerial]_vars

(***************************************************************************)
(* The catalog of three artworks and its reordering: one request at a      *)
(* time, GET /api/artworks at any moment                                   *)
(***************************************************************************)
CatalogArtworks == {1, 2, 3}

InitReorder ==
    /\ artworks = CatalogArtworks
    /\ customers = <<>>
    /\ orders = <<>>
    /\ orderItems = <<>>
    /\ reqs = <<>>
    /\ intents = <<>>
    /\ paid = {}
    /\ pricing = IdlePricing
    /\ InitClient
    /\ artworkSlug = [id \in CatalogArtworks |->
                         IF id = 1 THEN SeededSlug
                         ELSE SlugWithCounter(SeededSlug, id - 1)]
    /\ artworkSeq = 3
    /\ creates = <<>>
    /\ writers = {}
    /\ displayOrder = [id \in CatalogArtworks |-> 0]
    /\ reorder = NoReorder
    /\ socialMedia = [p \in {} |-> NoSetting]
    /\ socialPut = NoSocialPut

NextReorder ==
    \/ \E caller \in {Owner, Visitor}, ids \in ReorderInputs :
          PostArtworksReorder(caller, ids)
    \/ reorderArtworks
    \/ ReorderAnswered
    \/ ReorderStorageError

SpecReorder == InitReorder /\ [][NextReorder]_vars

(***************************************************************************)
(* The social-media settings of the back office                            *)
(***************************************************************************)
NextSocial ==
    \E caller \in {Owner, Visitor}, p \in Platforms, d \in SettingInputs,
       thrown \in {"none", "update", "both"} :
        PutSocialMedia(caller, p, d, thrown)

SpecSocial == Init /\ [][NextSocial]_vars

(***************************************************************************)
(* POST /api/orders with requests that overlap                             *)
(***************************************************************************)
NextOverlapping ==
    \/ \E e \in Emails, c \in CartInputs : PostOrdersOverlapping(e, c)
    \/ \E r \in 1..MaxReqs : GetCustomer(r)
    \/ \E r \in 1..MaxReqs : CreateCustomer(r)
    \/ \E r \in 1..MaxReqs : CreateOrder(r)
    \/ \E r \in 1..MaxReqs : AddOrderItem(r)
    \/ \E r \in 1..MaxReqs : OrderCreated(r)

SpecOverlapping == Init /\ [][NextOverlapping]_vars

(***************************************************************************)
(* Claims                                                                  *)
(***************************************************************************)
\* sum of unitPrice * quantity over the line items of a cart
RECURSIVE CartValue(_)
CartValue(items) ==
    IF items = <<>> THEN 0
    ELSE Head(items).unitPrice * Head(items).quantity + CartValue(Tail(items))

\* sum of totalPrice over order-item rows
RECURSIVE PriceSum(_)
PriceSum(rows) ==
    IF rows = <<>> THEN 0 ELSE Head(rows).totalPrice + PriceSum(Tail(rows))

Amounts(o) == <<o.subtotalAmount, o.shippingAmount, o.totalAmount>>

\* C1: every persisted order has totalAmount = subtotal + shippingCost, the
\* three amounts are those computed from the cart of the request that created
\* it, and no step changes the amounts of an order that exists.
C1_TotalIsSubtotalPlusShipping ==
    /\ [](\A i \in 1..Len(orders) :
            orders[i].totalAmount = orders[i].subtotalAmount + orders[i].shippingAmount)
    /\ [](\A r \in 1..Len(reqs) :
            reqs[r].orderId # 0 =>
                orders[reqs[r].orderId].subtotalAmount = CartValue(reqs[r].items))
    /\ [][\A i \in 1..Len(orders) :
            i <= Len(orders') /\ Amounts(orders'[i]) = Amounts(orders[i])]_vars

\* C1 witness: an order with a shipping charge has been completed and its
\* total is still the sum
C1_Witness ==
    \E i \in 1..Len(orders) :
        /\ orders[i].status = "completed"
        /\ orders[i].shippingAmount > 0
        /\ orders[i].totalAmount = orders[i].subtotalAmount + orders[i].shippingAmount

\* C2: the amount of every payment intent is the total the server's pricing
\* rule gives for the cart it pays for (in cents), not an amount of the caller.
C2_IntentAmountIsServerTotal ==
    \A i \in 1..Len(intents) :
        intents[i].amount = 100 * computeTotals(intents[i].cart).total

\* C3: an order is completed only if the processor confirmed its payment.
C3_CompletedOnlyAfterPayment ==
    \A i \in 1..Len(orders) :
        orders[i].status = "completed" => orders[i].id \in paid

C5_FlatRatesBelowThreshold ==
    (pricing.server.done /\ CartValue(pricing.cart) < 100)
        => pricing.server.shippingCost =
              IF \E i \in 1..Len(pricing.cart) : pricing.cart[i].type = "original"
              THEN 25 ELSE 15

\* C5 witness: the server priced a cart below 100 that holds an original and
\* a print, and charged the original rate
C5_Witness ==
    /\ pricing.server.done
    /\ CartValue(pricing.cart) < 100
    /\ \E i, j \in 1..Len(pricing.cart) :
          pricing.cart[i].type = "original" /\ pricing.cart[j].type = "print"
    /\ pricing.server.shippingCost = 25

\* C6: the total the checkout client computes for a cart equals the total the
\* server computes for the same cart.
C6_ClientTotalEqualsServerTotal ==
    (pricing.server.done /\ pricing.client.done)
        => pricing.client.total = pricing.server.total

\* C7: every order item has totalPrice = unitPrice * quantity of the line item
\* it was written from; order items are written only by the items loop of an
\* order creation and a written item never changes.
C7_ItemTotalPrice ==
    /\ [](\A i \in 1..Len(orderItems) :
            orderItems[i].totalPrice = orderItems[i].unitPrice * orderItems[i].quantity)
    /\ [](\A r \in 1..Len(reqs) :
            LET written == SelectSeq(orderItems,
                               LAMBDA it : reqs[r].orderId # 0 /\ it.orderId = reqs[r].orderId)
            IN  \A k \in 1..Len(written) :
                    /\ k <= Len(reqs[r].items)
                    /\ written[k].unitPrice = reqs[r].items[k].unitPrice
                    /\ written[k].quantity = reqs[r].items[k].quantity)
    /\ [][/\ \A i \in 1..Len(orderItems) :
                i <= Len(orderItems') /\ orderItems'[i] = orderItems[i]
          /\ orderItems' # orderItems =>
                \E r \in 1..Len(reqs) : reqs[r].pc = "addItems"]_vars

\* C7 witness: an item of quantity 2 was written, its order was created and
\* later completed
C7_Witness ==
    \E i \in 1..Len(orderItems) :
        /\ orderItems[i].quantity = 2
        /\ orderItems[i].totalPrice = 2 * orderItems[i].unitPrice
        /\ OrderById(orderItems[i].orderId).status = "completed"

C9_ResolveTwiceSameCustomer ==
    /\ \A r, q \in 1..Len(reqs) :
          (reqs[r].email = reqs[q].email /\ reqs[r].customerId # 0 /\ reqs[q].customerId # 0)
              => reqs[r].customerId = reqs[q].customerId
    /\ \A r \in 1..Len(reqs) :
          reqs[r].customerId # 0 =>
              Cardinality({i \in 1..Len(customers) : customers[i].email = reqs[r].email}) = 1

\* C9 witness: two requests with the same email have both resolved their
\* customer
C9_Witness ==
    \E r, q \in 1..Len(reqs) :
        /\ r < q
        /\ reqs[r].email = reqs[q].email
        /\ reqs[r].customerId # 0
        /\ reqs[q].customerId = reqs[r].customerId

\* C10: a POST /api/orders whose cart references an artwork that is not in
\* the catalog is answered not-found and leaves no order row and no order
\* item of its own (requests ended by a storage error aside).
C10_UnknownArtworkRejected ==
    \A r \in 1..Len(reqs) :
        (reqs[r].pc = "done" /\ reqs[r].unknownArtwork /\ reqs[r].error # "storage")
            => /\ reqs[r].status = 404
               /\ reqs[r].orderId = 0
               /\ \A i \in 1..Len(orderItems) : orderItems[i].orderId # reqs[r].orderId

\* C11: a POST /api/orders request that failed before its order row was
\* inserted leaves no customer row that it created.
C11_FailedOrderInsertLeavesNoCustomer ==
    \A r \in 1..Len(reqs) :
        (reqs[r].pc = "done" /\ reqs[r].status = 500 /\ reqs[r].orderId = 0) =>
            ~(/\ reqs[r].newCustomer
              /\ \E i \in 1..Len(customers) : customers[i].id = reqs[r].customerId)

\* the step is the catch block of request r, taken after its order row
\* was inserted
FailsAfterOrder(r) ==
    /\ r \in 1..Len(reqs)
    /\ reqs[r].pc # "done"
    /\ reqs[r].orderId # 0
    /\ reqs'[r].pc = "done"
    /\ reqs'[r].status = 500

\* the step takes a checkout handler to its error branch after the server
\* answered with the order
CheckoutFailsAfterOrder ==
    /\ checkout.orderId # 0
    /\ checkout.pc \notin {"failed", "success"}
    /\ checkout'.orderId = checkout.orderId
    /\ checkout'.pc = "failed"

\* C12: no step removes an order row or gives it a status other than pending
\* or completed, and a failure after the order row was inserted (an order-item
\* insert, the payment confirmation, the status update) leaves every order
\* row as it is, the order of the failed checkout pending.
C12_FailedRequestKeepsPendingOrder ==
    /\ [](\A i \in 1..Len(orders) : orders[i].status \in {"pending", "completed"})
    /\ [][\A i \in 1..Len(orders) :
            i <= Len(orders') /\ orders'[i].id = orders[i].id]_vars
    /\ [][\A r \in 1..MaxReqs :
            FailsAfterOrder(r) =>
                /\ orders' = orders
                /\ OrderExists(reqs[r].orderId)
                /\ OrderById(reqs[r].orderId).status = "pending"]_vars
    /\ [][CheckoutFailsAfterOrder =>
                /\ orders' = orders
                /\ OrderExists(checkout.orderId)
                /\ OrderById(checkout.orderId).status = "pending"]_vars

\* C12 witness: the payment confirmation failed after POST /api/orders
\* answered with the order, and the order is in the store, pending
C12_Witness ==
    /\ checkout.flow = "simple"
    /\ checkout.pc = "failed"
    /\ checkout.orderId # 0
    /\ OrderExists(checkout.orderId)
    /\ OrderById(checkout.orderId).status = "pending"

\* C13: on the card paths an order exists only once the processor reported
\* success for the payment intent, and the order row carries the id of that
\* payment intent.
C13_CardOrderAfterPaymentSuccess ==
    (checkout.flow \in CardFlows /\ checkout.orderId # 0) =>
        /\ checkout.intent # "none"
        /\ OrderById(checkout.orderId).stripePaymentIntentId = checkout.intent

\* C14: a transfer instruction is requested for an order that is already in
\* the store, pending; and an order with a transfer instruction is completed
\* only if an administrator marked it in the back office.
C14_TransferOrderPendingUntilAdmin ==
    /\ [][transfers' # transfers =>
            /\ OrderExists(transfers'[Len(transfers')].orderId)
            /\ OrderById(transfers'[Len(transfers')].orderId).status = "pending"]_vars
    /\ [](\A i \in 1..Len(transfers) :
            OrderById(transfers[i].orderId).status = "completed" =>
                <<transfers[i].orderId, Owner.name>> \in marked)

KeepsLines(old, new) ==
    \A i \in 1..Len(old) : \E j \in 1..Len(new) : LineKey(new[j]) = LineKey(old[i])

\* C16: when localStorage.setItem threw in addToCart or in a quantity update,
\* the stored cart still holds every line item it held before.
C16_FailedCartWriteKeepsLines ==
    [][(cartWrite'.handler \in {"addToCart", "updateQuantity"}
            /\ cartWrite'.thrown # "none") =>
        KeepsLines(localCart, localCart')]_vars

AllowedStatuses == {"pending", "completed", "failed", "cancelled"}

\* C17: an order row is inserted with status pending; a step leaves the
\* status of an order as it is or takes it from pending to completed; the
\* status is always one of the allowed values.
C17_StatusOnlyPendingToCompleted ==
    /\ [](\A i \in 1..Len(orders) : orders[i].status \in AllowedStatuses)
    /\ [][\A i \in 1..Len(orders') :
            IF i <= Len(orders)
            THEN \/ orders'[i].status = orders[i].status
                 \/ orders[i].status = "pending" /\ orders'[i].status = "completed"
            ELSE orders'[i].status = "pending"]_vars

\* C17 witness: one order was completed and a later one is pending
C17_Witness ==
    \E i, j \in 1..Len(orders) :
        i < j /\ orders[i].status = "completed" /\ orders[j].status = "pending"

\* C18: a catalog mutation is carried out only for an administrator, and a
\* create request of any other caller is answered with an authorization
\* error.
C18_NonAdminMutationRejected ==
    /\ \A caller \in Callers : caller.name \in writers => caller.admin
    /\ \A c \in 1..Len(creates) :
            (creates[c].pc = "done" /\ ~creates[c].caller.admin) =>
                creates[c].status \in {401, 403}

\* C19: no two rows of artworks have the same slug.
C19_SlugsUnique ==
    \A a, b \in artworks : a # b => artworkSlug[a] # artworkSlug[b]

\* C19 witness: two creates ran interleaved, both chose the same slug, one
\* row was stored and the other request was answered 500
C19_Witness ==
    /\ Cardinality(artworks) >= 2
    /\ \E c \in 1..Len(creates) : creates[c].status = 500

UsedSlugs == {artworkSlug[id] : id \in artworks}

\* the k-th slug of the sequence s, s-1, s-2, ...
Candidate(s, k) == IF k = 0 THEN s ELSE s \o <<"-", Digits[k + 1]>>

FirstUnused(s) ==
    Candidate(s, CHOOSE k \in 0..Cardinality(artworks) :
                    /\ Candidate(s, k) \notin UsedSlugs
                    /\ \A j \in 0..(k - 1) : Candidate(s, j) \in UsedSlugs)

\* C20: when requests are served one after the other, the insert of a create
\* request stores the artwork, under the first slug of s, s-1, s-2, ... that
\* no artwork has, s being the slug of its title.
C20_CreateStoresFirstUnusedSlug ==
    [][\A c \in 1..Len(creates) :
            (creates[c].pc = "insert" /\ creates'[c].pc = "done") =>
                /\ creates'[c].status = 201
                /\ creates'[c].id \in artworks' \ artworks
                /\ artworkSlug'[creates'[c].id] = FirstUnused(creates[c].slug)]_vars

\* C20 witness: the slug a was taken twice over: the catalog holds a, a-1
\* and a-2
C20_Witness ==
    {<<"a">>, <<"a", "-", "1">>, <<"a", "-", "2">>} \subseteq UsedSlugs

\* C21: a PUT /api/artworks/:id whose new title gives a slug that another
\* artwork already holds is answered with success, and the artwork is
\* stored with that slug made unique by a numeric suffix
C21_CollidingTitleUpdateStoresSuffixedSlug ==
    \A id \in artworks : \A t \in TitleInputs :
        SlugUniqueViolation(id, generateSlug(t)) =>
            /\ PutArtworkAnswer(Owner, id, t).status = 200
            /\ ENABLED (/\ PutArtwork(Owner, id, t)
                        /\ artworkSlug'[id] \in
                              {Candidate(generateSlug(t), k) : k \in 1..9}
                        /\ \A other \in artworks \ {id} :
                              artworkSlug'[other] # artworkSlug'[id])

\* the list names every artwork of the catalog once
IsPermutation(ids) ==
    /\ Len(ids) = Cardinality(artworks)
    /\ {ids[i] : i \in 1..Len(ids)} = artworks

\* C22: once a reorder whose list is a permutation of all artwork ids was
\* answered 200, the displayOrder of each artwork is its index in the list
\* (counted from 0) and GET /api/artworks lists the artworks in the order of
\* the list
C22_ReorderStoresPositions ==
    (reorder.pc = "done" /\ reorder.status = 200 /\ IsPermutation(reorder.artworkIds)) =>
        /\ \A i \in 1..Len(reorder.artworkIds) :
              displayOrder[reorder.artworkIds[i]] = i - 1
        /\ getAllArtworks = reorder.artworkIds

C22_Witness ==
    /\ reorder.pc = "done"
    /\ reorder.status = 200
    /\ reorder.artworkIds = <<3, 1, 2>>
    /\ reorder.before = <<2, 3, 1>>
    /\ getAllArtworks = <<3, 1, 2>>

\* C23: while a reorder is in progress, and after one that failed, GET
\* /api/artworks lists the artworks either in the order they had when the
\* request arrived or in the order of the list, never in a third order
C23_ReorderAllOrNothing ==
    (reorder.pc \in {"update", "done"} /\ reorder.status \in {0, 500}
        /\ IsPermutation(reorder.artworkIds)) =>
        getAllArtworks \in {reorder.before, reorder.artworkIds}

\* the rows of order_items of one order
StoredItems(id) == SelectSeq(orderItems, LAMBDA it : it.orderId = id)

\* C24: whatever DELETE /api/artworks/:id requests were served, the artwork
\* of every order item is still in the catalog, and GET /api/orders/:id
\* returns every stored item of the order
C24_DeleteKeepsOrderItemArtworks ==
    /\ \A i \in 1..Len(orderItems) : orderItems[i].artworkId \in artworks
    /\ \A id \in OrderIds :
          OrderExists(id) => GetOrder(id).items = StoredItems(id)

\* C24 witness: an order with two items of artwork 1 is in the store, a
\* DELETE of artwork 1 is answered 500, and the order is fetched with both
C24_Witness ==
    \E id \in OrderIds :
        /\ OrderExists(id)
        /\ Len(StoredItems(id)) = 2
        /\ \A i \in 1..2 : StoredItems(id)[i].artworkId = 1
        /\ 1 \in artworks
        /\ ENABLED DeleteArtwork(Owner, 1)
        /\ DeleteArtworkAnswer(Owner, 1) = 500
        /\ Len(GetOrder(id).items) = 2

\* C25: POST /api/orders/:id/complete with the id of no order, and PUT
\* /api/artworks/:id with the id of no artwork, are answered 404
C25_UnknownIdAnsweredNotFound ==
    /\ \A id \in OrderIds :
          (~OrderExists(id) /\ ENABLED PostOrderComplete(id, "pi_1")) =>
              PostOrderCompleteAnswer(id).status = 404
    /\ \A id \in ArtworkIds \ artworks : \A t \in TitleInputs :
          PutArtworkAnswer(Owner, id, t).status = 404

\* no two lines of the cart have the same artworkId, type and printSize
OneLinePerKey(items) ==
    \A i, j \in 1..Len(items) : i # j => LineKey(items[i]) # LineKey(items[j])

\* C26: the stored cart never holds two lines with the same (artworkId,
\* type, printSize), and an addToCart whose write succeeded either appended
\* a line with a key the cart did not hold, or raised the quantity of one
\* line by the added quantity and left the number of lines as it was
C26_AddMergesByKey ==
    [][/\ OneLinePerKey(localCart')
       /\ (cartWrite'.handler = "addToCart" /\ cartWrite'.thrown = "none"
              /\ localCart' # localCart) =>
            \/ \E item \in CartItemInputs :
                  /\ \A i \in 1..Len(localCart) :
                        LineKey(localCart[i]) # LineKey(item)
                  /\ localCart' = Append(localCart, item)
            \/ \E i \in 1..Len(localCart) : \E item \in CartItemInputs :
                  /\ LineKey(localCart[i]) = LineKey(item)
                  /\ localCart' = [localCart EXCEPT
                                     ![i].quantity = @ + item.quantity]]_vars

\* C26 witness: the cart page was never opened, and after three additions
\* the cart holds the original and one print line of quantity 3
C26_Witness ==
    /\ cartWrite = [handler |-> "addToCart", thrown |-> "none"]
    /\ cartItems = <<>>
    /\ Len(localCart) = 2
    /\ \E i \in 1..2 : localCart[i].type = "print" /\ localCart[i].quantity = 3
    /\ \E i \in 1..2 : localCart[i].type = "original" /\ localCart[i].quantity = 1

\* the largest quantity the quantity selector of the artwork page steps to
PrintQuantityMax == 10

\* C27: every line of the stored cart has a quantity of at least 1, exactly
\* 1 when it is an original, and at most PrintQuantityMax when it is a print
C27_QuantitiesWithinLimits ==
    \A i \in 1..Len(localCart) :
        /\ localCart[i].quantity >= 1
        /\ localCart[i].type = "original" => localCart[i].quantity = 1
        /\ localCart[i].type = "print" => localCart[i].quantity <= PrintQuantityMax

\* C28: when two POST /api/orders requests with the same email were both
\* answered 201, one customer row holds that email and the orders of both
\* reference it
C28_OverlappingRequestsShareCustomer ==
    \A r, q \in 1..Len(reqs) :
        (r # q /\ reqs[r].email = reqs[q].email
            /\ reqs[r].status = 201 /\ reqs[q].status = 201) =>
            /\ Cardinality({i \in 1..Len(customers) :
                               customers[i].email = reqs[r].email}) = 1
            /\ OrderById(reqs[r].orderId).customerId
                  = OrderById(reqs[q].orderId).customerId

\* C29: GET /api/artworks/:identifier with the slug of an artwork of the
\* catalog is answered 200 with that artwork, also when the slug consists of
\* digits only
C29_ArtworkFoundByOwnSlug ==
    \A id \in artworks :
        artworkSlug[id] # <<>> =>
            GetArtwork(artworkSlug[id]) = [status |-> 200, artwork |-> {id}]

\* C30: after a PUT /api/social-media/:platform for a platform without a
\* stored setting was answered 200, the table holds a setting for that
\* platform with the submitted values
C30_PutCreatesMissingSetting ==
    (socialPut.status = 200 /\ ~socialPut.stored) =>
        /\ socialPut.platform \in DOMAIN socialMedia
        /\ socialMedia[socialPut.platform] = socialPut.settingData

====
